---- MODULE Spec2Model ----
(***************************************************************************)
(* A model of `sub`, a line-oriented find-and-replace command.             *)
(*                                                                         *)
(* Text is modelled as a sequence of one-character strings.  The regular   *)
(* expression syntax modelled is the part of the regex crate's syntax that *)
(* the pattern sets below can form: literals, the escapes \b \w \\ \n,     *)
(* one-or-more repetition (+), top-level alternation (|) and the opening   *)
(* of a group, which without its closing parenthesis is a syntax error.    *)
(***************************************************************************)
EXTENDS Integers, Sequences, FiniteSets, TLC

\* ------------------------------------------------------------------------
\* Bounds of the model
\* ------------------------------------------------------------------------

\* Longest input (file or standard input) in bytes.
MaxLen == 3

\* Capacity of an io::BufWriter in bytes (8192 in the standard library).
BufCap == 2

\* ------------------------------------------------------------------------
\* Text
\* ------------------------------------------------------------------------

NL == "\n"

\* A byte that is not valid UTF-8.
BadByte == "\\xFF"

WordChars == {"a", "b", "A", "B", "w"}

IsWordChar(c) == c \in WordChars

Lower(c) == CASE c = "A" -> "a" [] c = "B" -> "b" [] OTHER -> c

\* Position of the first NL in s at or after index i, or 0.
RECURSIVE FirstNL(_, _)
FirstNL(s, i) ==
    IF i > Len(s) THEN 0
    ELSE IF s[i] = NL THEN i
    ELSE FirstNL(s, i + 1)

\* Position of the last NL in s, or 0.
RECURSIVE LastNL(_, _)
LastNL(s, i) ==
    IF i = 0 THEN 0
    ELSE IF s[i] = NL THEN i
    ELSE LastNL(s, i - 1)

\* ------------------------------------------------------------------------
\* Pattern compilation: RegexBuilder::new(p).case_insensitive(i).build()
\* ------------------------------------------------------------------------

\* format!(r"\b{}\b", self.pattern), or the pattern itself.
EffectivePattern(pattern, whole_word) ==
    IF whole_word THEN <<"\\", "b">> \o pattern \o <<"\\", "b">> ELSE pattern

\* One token per syntactic element; an escape is a backslash and the next
\* character.  A trailing backslash is a syntax error.  The escapes listed
\* are the ones the patterns explored can form; any other escape is outside
\* the syntax modelled and no pattern explored contains one.
RECURSIVE Lex(_)
Lex(p) ==
    IF p = <<>> THEN <<>>
    ELSE IF Head(p) = "\\" THEN
        IF Len(p) = 1 THEN <<[t |-> "error"]>>
        ELSE LET c == p[2]
                 tok == CASE c = "b" -> [t |-> "wb"]
                          [] c = "w" -> [t |-> "word"]
                          [] c = "n" -> [t |-> "lit", c |-> NL]
                          [] c = "a" -> [t |-> "lit", c |-> "\\x07"]
                          [] c \in {"\\", "|", "(", "+"} -> [t |-> "lit", c |-> c]
                          [] OTHER -> [t |-> "error"]
             IN <<tok>> \o Lex(SubSeq(p, 3, Len(p)))
    ELSE LET c == Head(p)
             tok == CASE c = "|" -> [t |-> "bar"]
                      [] c = "(" -> [t |-> "lparen"]
                      [] c = "+" -> [t |-> "plus"]
                      [] OTHER -> [t |-> "lit", c |-> c]
         IN <<tok>> \o Lex(Tail(p))

\* The alternatives of a token sequence: the sequences between the bars.
RECURSIVE SplitBars(_, _)
SplitBars(toks, cur) ==
    IF toks = <<>> THEN <<cur>>
    ELSE IF Head(toks).t = "bar" THEN <<cur>> \o SplitBars(Tail(toks), <<>>)
    ELSE SplitBars(Tail(toks), Append(cur, Head(toks)))

\* The atoms of one alternative: a plus marks the atom before it as
\* repeated; a plus with nothing before it is a syntax error.
RECURSIVE Atoms(_, _)
Atoms(toks, acc) ==
    IF toks = <<>> THEN acc
    ELSE IF Head(toks).t = "plus" THEN
        IF acc = <<>> THEN <<[t |-> "error"]>>
        ELSE Atoms(Tail(toks),
                   [acc EXCEPT ![Len(acc)] = [@ EXCEPT !.rep = TRUE]])
    ELSE Atoms(Tail(toks),
               Append(acc, [t |-> Head(toks).t,
                            c |-> IF Head(toks).t = "lit" THEN Head(toks).c ELSE "",
                            rep |-> FALSE]))

HasError(seq) == \E i \in 1..Len(seq) : seq[i].t \in {"error", "lparen"}

\* The compiled matcher, or an error.
Compile(p, ignore_case) ==
    LET toks == Lex(p)
        alts == SplitBars(toks, <<>>)
        parsed == [i \in 1..Len(alts) |-> Atoms(alts[i], <<>>)]
    IN IF HasError(toks) \/ \E i \in 1..Len(parsed) : HasError(parsed[i])
       THEN [ok |-> FALSE]
       ELSE [ok |-> TRUE, alts |-> parsed, icase |-> ignore_case]

\* ------------------------------------------------------------------------
\* Matching.  Positions are 0..Len(line): position i is before line[i+1].
\* ------------------------------------------------------------------------

IsBoundary(line, pos) ==
    LET before == pos >= 1 /\ IsWordChar(line[pos])
        after == pos < Len(line) /\ IsWordChar(line[pos + 1])
    IN before # after

\* A matcher on which case_insensitive has no effect.
AtomMatchesCaseSensitive(atom, icase, c) ==
    IF atom.t = "word" THEN IsWordChar(c) ELSE atom.c = c

AtomMatches(atom, icase, c) ==
    IF atom.t = "word" THEN IsWordChar(c)
    ELSE IF icase THEN Lower(atom.c) = Lower(c)
    ELSE atom.c = c

\* Number of consecutive characters from pos on that the atom matches.
RECURSIVE Run(_, _, _, _)
Run(atom, icase, line, pos) ==
    IF pos < Len(line) /\ AtomMatches(atom, icase, line[pos + 1])
    THEN 1 + Run(atom, icase, line, pos + 1)
    ELSE 0

\* End of the preferred match of atoms[k..] at pos, or -1.  A repetition is
\* greedy: the longest run that lets the rest match.
RECURSIVE MatchSeq(_, _, _, _, _)
RECURSIVE MatchRep(_, _, _, _, _, _)
MatchSeq(atoms, k, icase, line, pos) ==
    IF k > Len(atoms) THEN pos
    ELSE LET atom == atoms[k] IN
         IF atom.t = "wb" THEN
             IF IsBoundary(line, pos)
             THEN MatchSeq(atoms, k + 1, icase, line, pos)
             ELSE -1
         ELSE IF atom.rep THEN
             MatchRep(atoms, k, icase, line, pos, Run(atom, icase, line, pos))
         ELSE IF pos < Len(line) /\ AtomMatches(atom, icase, line[pos + 1])
             THEN MatchSeq(atoms, k + 1, icase, line, pos + 1)
             ELSE -1
MatchRep(atoms, k, icase, line, pos, n) ==
    IF n < 1 THEN -1
    ELSE LET e == MatchSeq(atoms, k + 1, icase, line, pos + n)
         IN IF e # -1 THEN e ELSE MatchRep(atoms, k, icase, line, pos, n - 1)

\* Leftmost-first alternation: the first alternative that matches at pos.
RECURSIVE MatchAlts(_, _, _, _)
MatchAlts(re, i, line, pos) ==
    IF i > Len(re.alts) THEN -1
    ELSE LET e == MatchSeq(re.alts[i], 1, re.icase, line, pos)
         IN IF e # -1 THEN e ELSE MatchAlts(re, i + 1, line, pos)

\* Regex::find_at: the leftmost match starting at or after start.
RECURSIVE FindAt(_, _, _)
FindAt(re, line, start) ==
    IF start > Len(line) THEN [found |-> FALSE]
    ELSE LET e == MatchAlts(re, 1, line, start)
         IN IF e # -1 THEN [found |-> TRUE, s |-> start, e |-> e]
            ELSE FindAt(re, line, start + 1)

\* Regex::is_match
IsMatch(re, line) == FindAt(re, line, 0).found

\* The bytes a capture-group name in a replacement may consist of.
RefNameChars == WordChars \cup {"0", "_"}

\* Length of the longest run of name bytes of rep starting at index i.
RECURSIVE RefNameLen(_, _)
RefNameLen(rep, i) ==
    IF i > Len(rep) \/ rep[i] \notin RefNameChars THEN 0
    ELSE 1 + RefNameLen(rep, i + 1)

\* Index of the first "}" of rep at or after i, 0 if there is none.
RECURSIVE FirstBrace(_, _)
FirstBrace(rep, i) ==
    IF i > Len(rep) THEN 0
    ELSE IF rep[i] = "}" THEN i
    ELSE FirstBrace(rep, i + 1)

\* The text of the group a reference names.  A compiled pattern of this model
\* has no capture group besides group 0, the whole match; a reference to any
\* other group expands to the empty string.
GroupText(name, m) ==
    IF name # <<>> /\ \A i \in 1..Len(name) : name[i] = "0" THEN m ELSE <<>>

\* The &str replacer of replace_all (Captures::expand): "$$" is a dollar
\* sign, "$name" and "${name}" are the text of that group, where name is the
\* longest run of name bytes; a "$" that starts no reference is literal.
RECURSIVE Expand(_, _)
Expand(rep, m) ==
    IF rep = <<>> THEN <<>>
    ELSE IF rep[1] # "$" THEN <<rep[1]>> \o Expand(Tail(rep), m)
    ELSE IF Len(rep) >= 2 /\ rep[2] = "$"
    THEN <<"$">> \o Expand(SubSeq(rep, 3, Len(rep)), m)
    ELSE IF Len(rep) >= 2 /\ rep[2] = "{"
    THEN LET k == FirstBrace(rep, 3)
         IN IF k = 0 THEN <<"$">> \o Expand(Tail(rep), m)
            ELSE GroupText(SubSeq(rep, 3, k - 1), m)
                 \o Expand(SubSeq(rep, k + 1, Len(rep)), m)
    ELSE LET n == RefNameLen(rep, 2)
         IN IF n = 0 THEN <<"$">> \o Expand(Tail(rep), m)
            ELSE GroupText(SubSeq(rep, 2, n + 1), m)
                 \o Expand(SubSeq(rep, n + 2, Len(rep)), m)

\* Regex::replace_all: the successive non-overlapping matches, each replaced.
\* last_end is where the search resumes, last_match the end of the previous
\* match (-1: none), copied the position up to which the line is written.
\* An empty match right after the previous match is skipped.
RECURSIVE ReplaceFrom(_, _, _, _, _, _)
ReplaceFrom(re, line, rep, last_end, last_match, copied) ==
    LET m == FindAt(re, line, last_end) IN
    IF ~m.found THEN SubSeq(line, copied + 1, Len(line))
    ELSE IF m.s = m.e THEN
        IF m.e = last_match
        THEN ReplaceFrom(re, line, rep, m.e + 1, last_match, copied)
        ELSE SubSeq(line, copied + 1, m.s) \o Expand(rep, <<>>)
             \o ReplaceFrom(re, line, rep, m.e + 1, m.e, m.e)
    ELSE SubSeq(line, copied + 1, m.s)
         \o Expand(rep, SubSeq(line, m.s + 1, m.e))
         \o ReplaceFrom(re, line, rep, m.e, m.e, m.e)

\* Regex::replace in place of replace_all: only the first match is replaced.
ReplaceFirst(re, line, rep) ==
    LET m == FindAt(re, line, 0)
    IN IF ~m.found THEN line
       ELSE SubSeq(line, 1, m.s) \o Expand(rep, SubSeq(line, m.s + 1, m.e))
            \o SubSeq(line, m.e + 1, Len(line))

ReplaceAll(re, line, rep) == ReplaceFrom(re, line, rep, 0, -1, 0)


\* ------------------------------------------------------------------------
\* The replace loop as a function of the whole input: what an ideal sink
\* receives.  Some(text) when every line is valid UTF-8.
\* ------------------------------------------------------------------------

\* BufRead::read_line: the bytes through the first NL, or all of them.
ReadLineOf(data) ==
    LET k == FirstNL(data, 1)
    IN IF k = 0 THEN data ELSE SubSeq(data, 1, k)

IsValidUTF8(line) == \A i \in 1..Len(line) : line[i] # BadByte

\* A replacer that ignores the line filter.
NewLineUnfiltered(re, filter, rep, line) == ReplaceAll(re, line, rep)

\* The line written for line_buffer (sub.rs: new_line).
NewLine(re, filter, rep, line) ==
    IF (~filter.some) \/ IsMatch(filter.re, line)
    THEN ReplaceAll(re, line, rep)
    ELSE line

RECURSIVE ReplaceStream(_, _, _, _)
ReplaceStream(re, filter, rep, data) ==
    IF data = <<>> THEN [ok |-> TRUE, text |-> <<>>]
    ELSE LET line == ReadLineOf(data)
             rest == ReplaceStream(re, filter, rep,
                                   SubSeq(data, Len(line) + 1, Len(data)))
         IN IF ~IsValidUTF8(line) THEN [ok |-> FALSE, text |-> <<>>]
            ELSE [ok |-> rest.ok, text |-> NewLine(re, filter, rep, line) \o rest.text]

\* ------------------------------------------------------------------------
\* State
\* ------------------------------------------------------------------------

VARIABLES
    cli,            \* the parsed command line (struct Cli)
    is_tty,         \* atty::is(Stream::Stdout)
    run_impl,       \* which Sub::run executes: "sub" (sub.rs) or "main" (main.rs)
    fs,             \* the files: path -> [exists, content, perm]
    fs0,            \* the files when the process started
    snap,           \* per input, the file (or standard input) as it was opened
    stdin_data,     \* what standard input holds
    pipe_open,      \* whether the reader of standard output still accepts bytes
    pc,             \* position in main / Sub::run / Sub::replace
    inputs,         \* Sub.inputs
    re,             \* the compiled pattern
    line_match_pattern, \* the compiled line filter, if any
    idx,            \* index of the current input
    reader,         \* the unread bytes of the current input
    line_buffer,    \* replace's line_buffer
    writer,         \* kind of the current sink
    wbuf,           \* the io::BufWriter's buffer
    temp,           \* the temporary file [exists, content, perm]
    current_file_permissions,
    lw,             \* the buffer of standard output's LineWriter
    out,            \* the bytes standard output's descriptor received
    rejected,       \* whether a write to a descriptor was rejected
    err,            \* the lines written to standard error
    result,         \* what Sub::run returned
    exit_code,      \* the process's exit status, -1 while running
    ops             \* the operations performed: <<operation, input index, path>>,
                    \* a write with <<line read, line written>> appended

vars == <<cli, is_tty, run_impl, fs, fs0, snap, stdin_data, pipe_open, pc, inputs, re,
          line_match_pattern, idx, reader, line_buffer, writer, wbuf, temp,
          current_file_permissions, lw, out, rejected, err, result, exit_code,
          ops>>

\* ------------------------------------------------------------------------
\* Input domains
\* ------------------------------------------------------------------------

Bytes == {"a", NL, BadByte}

RECURSIVE SeqsUpTo(_, _)
SeqsUpTo(S, n) ==
    IF n = 0 THEN {<<>>}
    ELSE LET shorter == SeqsUpTo(S, n - 1)
         IN shorter \cup {Append(s, x) : s \in {t \in shorter : Len(t) = n - 1}, x \in S}

Contents == SeqsUpTo(Bytes, MaxLen)

Paths == {"f1", "f2"}

FileArgs == {<<>>, <<"f1">>, <<"f1", "f2">>, <<"f2", "f1">>, <<"f2", "f1", "f2">>}

None == [some |-> FALSE]
Some(v) == [some |-> TRUE, v |-> v]

\* Pattern, whole-word, ignore-case and line filter of the jobs explored:
\* valid and invalid patterns and filters, and a pattern (a lone backslash)
\* that is invalid as given and valid once wrapped in \b...\b.
RegexJobs ==
    { [pattern |-> <<"a">>, whole_word |-> FALSE, ignore_case |-> FALSE, line_match |-> None],
      [pattern |-> <<"a">>, whole_word |-> TRUE, ignore_case |-> TRUE, line_match |-> Some(<<"a">>)],
      [pattern |-> <<"(">>, whole_word |-> FALSE, ignore_case |-> FALSE, line_match |-> None],
      [pattern |-> <<"(">>, whole_word |-> TRUE, ignore_case |-> FALSE, line_match |-> Some(<<"a">>)],
      [pattern |-> <<"a">>, whole_word |-> FALSE, ignore_case |-> TRUE, line_match |-> Some(<<"(">>)],
      [pattern |-> <<"\\">>, whole_word |-> FALSE, ignore_case |-> FALSE, line_match |-> None],
      [pattern |-> <<"\\">>, whole_word |-> TRUE, ignore_case |-> FALSE, line_match |-> None] }

Clis ==
    { [pattern |-> j.pattern, replacement |-> <<"b">>, files |-> f,
       ignore_case |-> j.ignore_case, in_place |-> p, whole_word |-> j.whole_word,
       line_match |-> j.line_match] : j \in RegexJobs, f \in FileArgs, p \in BOOLEAN }

\* Permission bits (fs::Permissions).
Mode644 == "rw-r--r--"
Mode755 == "rwxr-xr-x"
\* The mode the tempfile crate creates its files with.
TempMode == "rw-------"
NoMode == "---------"

Missing == [exists |-> FALSE, content |-> <<>>, perm |-> NoMode]

InSeq(x, s) == \E i \in 1..Len(s) : s[i] = x

\* The file systems a job starts from: f1 is missing or holds any content
\* with either mode when the job names it; f2 is a fixed executable file.
FileSystems(files) ==
    { [p \in Paths |->
         IF ~InSeq(p, files) THEN Missing
         ELSE IF p = "f2" THEN [exists |-> TRUE, content |-> <<"a", NL>>, perm |-> Mode755]
         ELSE f1]
      : f1 \in {Missing} \cup
               { [exists |-> TRUE, content |-> c, perm |-> m]
                 : c \in Contents, m \in {Mode644, Mode755} } }


\* ------------------------------------------------------------------------
\* Writers.  W is the part of the state a write can change:
\* [temp: the temp file's content, lw, out, rejected].
\* ------------------------------------------------------------------------

\* A write(2) on standard output's descriptor.
FdWrite(W, data) ==
    IF data = <<>> THEN [ok |-> TRUE, W |-> W]
    ELSE IF pipe_open THEN [ok |-> TRUE, W |-> [W EXCEPT !.out = @ \o data]]
    ELSE [ok |-> FALSE, W |-> [W EXCEPT !.rejected = TRUE]]

\* A write on the temporary file; disk_ok is whether the device takes it.
TempWrite(W, data, disk_ok) ==
    IF data = <<>> THEN [ok |-> TRUE, W |-> W]
    ELSE IF disk_ok THEN [ok |-> TRUE, W |-> [W EXCEPT !.temp = @ \o data]]
    ELSE [ok |-> FALSE, W |-> [W EXCEPT !.rejected = TRUE]]

\* Standard output is a LineWriter: it passes data through up to the last
\* newline and holds the rest until a later line, a flush or process exit.
LwFlush(W) ==
    LET r == FdWrite(W, W.lw)
    IN IF r.ok THEN [ok |-> TRUE, W |-> [r.W EXCEPT !.lw = <<>>]] ELSE r

LwWriteAll(W, data) ==
    LET k == LastNL(data, Len(data)) IN
    IF k = 0 THEN
        LET f == IF W.lw # <<>> /\ W.lw[Len(W.lw)] = NL
                 THEN LwFlush(W) ELSE [ok |-> TRUE, W |-> W]
        IN IF f.ok THEN [ok |-> TRUE, W |-> [f.W EXCEPT !.lw = @ \o data]] ELSE f
    ELSE
        LET lines == SubSeq(data, 1, k)
            tail == SubSeq(data, k + 1, Len(data))
            r == IF W.lw = <<>> THEN FdWrite(W, lines)
                 ELSE LwFlush([W EXCEPT !.lw = @ \o lines])
        IN IF r.ok THEN [ok |-> TRUE, W |-> [r.W EXCEPT !.lw = @ \o tail]] ELSE r

\* write_all on what a BufWriter wraps.
InnerWriteAll(kind, W, data, disk_ok) ==
    IF kind = "buf_temp" THEN TempWrite(W, data, disk_ok) ELSE LwWriteAll(W, data)

\* io::BufWriter::write_all: data that fits is only buffered; otherwise the
\* buffer is flushed first, and data of at least the capacity bypasses it.
BufWriteAll(kind, W, buf, data, disk_ok) ==
    IF Len(data) < BufCap - Len(buf)
    THEN [ok |-> TRUE, W |-> W, buf |-> buf \o data]
    ELSE LET f == IF Len(data) > BufCap - Len(buf)
                  THEN InnerWriteAll(kind, W, buf, disk_ok)
                  ELSE [ok |-> FALSE, W |-> W]
             flushed == Len(data) > BufCap - Len(buf)
             W1 == IF flushed THEN f.W ELSE W
             buf1 == IF flushed THEN <<>> ELSE buf
         IN IF flushed /\ ~f.ok THEN [ok |-> FALSE, W |-> f.W, buf |-> buf]
            ELSE IF Len(data) >= BufCap
            THEN LET d == InnerWriteAll(kind, W1, data, disk_ok)
                 IN [ok |-> d.ok, W |-> d.W, buf |-> buf1]
            ELSE [ok |-> TRUE, W |-> W1, buf |-> buf1 \o data]

\* Drop of an io::BufWriter: the buffer is flushed and the outcome ignored.
BufDrop(kind, W, buf, disk_ok) == InnerWriteAll(kind, W, buf, disk_ok).W

\* A writeln! in place of the write!: a line feed follows every line that has none.
WriterWriteLn(kind, W, buf, data, disk_ok) ==
    LET text == IF data # <<>> /\ data[Len(data)] = NL THEN data ELSE Append(data, NL)
    IN IF kind = "stdout_lock"
       THEN LET r == LwWriteAll(W, text) IN [ok |-> r.ok, W |-> r.W, buf |-> buf]
       ELSE BufWriteAll(kind, W, buf, text, disk_ok)

\* write!(writer, "{}", new_line)
WriterWrite(kind, W, buf, data, disk_ok) ==
    IF kind = "stdout_lock"
    THEN LET r == LwWriteAll(W, data) IN [ok |-> r.ok, W |-> r.W, buf |-> buf]
    ELSE BufWriteAll(kind, W, buf, data, disk_ok)

\* ------------------------------------------------------------------------
\* main and Sub::run
\* ------------------------------------------------------------------------

\* A parser that does not know that in_place requires files.
ClapAcceptsAnything(c) == TRUE

\* #[arg(short = 'p', long, requires = "files")]
ClapAccepts(c) == ~(c.in_place /\ c.files = <<>>)

\* The inputs collected last file first.
InputsReversed(files) ==
    IF files = <<>> THEN <<[kind |-> "StdIn", path |-> ""]>>
    ELSE [i \in 1..Len(files) |-> [kind |-> "File", path |-> files[Len(files) + 1 - i]]]

\* main: the inputs of the job.
InputsOf(files) ==
    IF files = <<>> THEN <<[kind |-> "StdIn", path |-> ""]>>
    ELSE [i \in 1..Len(files) |-> [kind |-> "File", path |-> files[i]]]

\* A run that lets a line filter that does not compile pass as no filter.
CompileStageFilterUnchecked(c) ==
    LET r == Compile(EffectivePattern(c.pattern, c.whole_word), c.ignore_case)
        m == IF c.line_match.some THEN Compile(c.line_match.v, c.ignore_case)
             ELSE [ok |-> FALSE]
    IN IF ~r.ok THEN [ok |-> FALSE]
       ELSE [ok |-> TRUE, re |-> r,
             filter |-> IF m.ok THEN [some |-> TRUE, re |-> m] ELSE [some |-> FALSE]]

\* Sub::run up to the loop: both regular expressions, or RegexError.
CompileStage(c) ==
    LET r == Compile(EffectivePattern(c.pattern, c.whole_word), c.ignore_case)
        m == IF c.line_match.some THEN Compile(c.line_match.v, c.ignore_case)
             ELSE [ok |-> TRUE]
    IN IF ~r.ok \/ ~m.ok THEN [ok |-> FALSE]
       ELSE [ok |-> TRUE, re |-> r,
             filter |-> IF c.line_match.some THEN [some |-> TRUE, re |-> m]
                        ELSE [some |-> FALSE]]

\* The branch Sub::run of sub.rs takes for an input, once it is open.
Route(tty, in_place, kind) ==
    IF tty THEN "stdout_lock"
    ELSE IF kind = "File" THEN (IF in_place THEN "in_place" ELSE "unreachable")
    ELSE "buf_stdout"

\* The branch Sub::run of main.rs takes.
RouteMain(tty) == IF tty THEN "stdout_lock" ELSE "buf_stdout"

Ok == [ok |-> TRUE]
Err(kind, path) == [ok |-> FALSE, kind |-> kind, path |-> path]
NoResult == [ok |-> FALSE, kind |-> "none", path |-> ""]

\* impl fmt::Display for SubError
Display(e) ==
    CASE e.kind = "FailedToWrite" -> <<"Output stream has been closed">>
      [] e.kind = "InvalidUTF8" -> <<"Input contains invalid UTF-8">>
      [] e.kind = "RegexError" -> <<"Regex error">>
      [] e.kind = "FileNotFoundError" -> <<"Can not open file '", e.path, "'">>
      [] e.kind = "CanNotCreateTempFile" -> <<"Can not create temp file">>
      [] e.kind = "CanNotReadPermissions" ->
            <<"Can not read permissions on file '", e.path, "'">>
      [] e.kind = "CanNotSetPermissions" ->
            <<"Can not set permissions on file '", e.path, "'">>
      [] e.kind = "CanNotReplaceInPlace" ->
            <<"Can not replace in place for file '", e.path, "' with error '", "io", "'">>

World == [temp |-> temp.content, lw |-> lw, out |-> out, rejected |-> rejected]

Log(op) == ops' = Append(ops, <<op, idx, inputs[idx].path>>)

\* A write also records the line read and the line handed to the writer.
LogWrite(line, new_line) ==
    ops' = Append(ops, <<"write", idx, inputs[idx].path, line, new_line>>)

Init ==
    /\ cli \in Clis
    /\ is_tty \in BOOLEAN
    /\ run_impl \in {"sub", "main"}
    /\ fs \in FileSystems(cli.files)
    /\ fs0 = fs
    /\ snap = <<>>
    /\ stdin_data \in (IF cli.files = <<>> THEN Contents ELSE {<<>>})
    /\ pipe_open = TRUE
    /\ pc = "parse"
    /\ inputs = <<>>
    /\ re = [ok |-> FALSE]
    /\ line_match_pattern = [some |-> FALSE]
    /\ idx = 0
    /\ reader = <<>>
    /\ line_buffer = <<>>
    /\ writer = "none"
    /\ wbuf = <<>>
    /\ temp = Missing
    /\ current_file_permissions = NoMode
    /\ lw = <<>>
    /\ out = <<>>
    /\ rejected = FALSE
    /\ err = <<>>
    /\ result = NoResult
    /\ exit_code = -1
    /\ ops = <<>>

\* main: Cli::parse() and the construction of the job.
Parse ==
    /\ pc = "parse"
    /\ IF ClapAccepts(cli)
       THEN /\ inputs' = InputsOf(cli.files)
            /\ pc' = "compile"
            /\ UNCHANGED <<err, exit_code>>
       ELSE /\ err' = Append(err, <<"error: the following required arguments were not provided: <FILES>...">>)
            /\ exit_code' = 2
            /\ pc' = "exited"
            /\ UNCHANGED inputs
    /\ UNCHANGED <<cli, is_tty, run_impl, fs, fs0, snap, stdin_data, pipe_open, re,
                   line_match_pattern, idx, reader, line_buffer, writer, wbuf, temp,
                   current_file_permissions, lw, out, rejected, result, ops>>

\* Sub::run, before the loop.
CompilePatterns ==
    /\ pc = "compile"
    /\ LET c == CompileStage(cli) IN
       IF c.ok
       THEN /\ re' = c.re
            /\ line_match_pattern' = c.filter
            /\ pc' = "loop"
            /\ UNCHANGED result
       ELSE /\ result' = Err("RegexError", "")
            /\ pc' = "returned"
            /\ UNCHANGED <<re, line_match_pattern>>
    /\ UNCHANGED <<cli, is_tty, run_impl, fs, fs0, snap, stdin_data, pipe_open, inputs,
                   idx, reader, line_buffer, writer, wbuf, temp,
                   current_file_permissions, lw, out, rejected, err, exit_code, ops>>

\* for input in self.inputs.iter() ... Ok(())
LoopHead ==
    /\ pc = "loop"
    /\ IF idx = Len(inputs)
       THEN /\ result' = Ok
            /\ pc' = "returned"
            /\ UNCHANGED idx
       ELSE /\ idx' = idx + 1
            /\ pc' = "open"
            /\ UNCHANGED result
    /\ UNCHANGED <<cli, is_tty, run_impl, fs, fs0, snap, stdin_data, pipe_open, inputs, re,
                   line_match_pattern, reader, line_buffer, writer, wbuf, temp,
                   current_file_permissions, lw, out, rejected, err, exit_code, ops>>

\* create_reader, and the branch taken with the reader.
Open ==
    /\ pc = "open"
    /\ Log("open")
    /\ snap' = Append(snap, IF inputs[idx].kind = "File" THEN fs[inputs[idx].path]
                            ELSE [exists |-> TRUE, content |-> stdin_data, perm |-> NoMode])
    /\ LET input == inputs[idx]
           route == IF run_impl = "sub" THEN Route(is_tty, cli.in_place, input.kind)
                    ELSE RouteMain(is_tty)
       IN IF input.kind = "File" /\ ~fs[input.path].exists
          THEN /\ result' = Err("FileNotFoundError", input.path)
               /\ pc' = "returned"
               /\ UNCHANGED <<reader, writer>>
          ELSE /\ reader' = IF input.kind = "File" THEN fs[input.path].content
                            ELSE stdin_data
               /\ pc' = CASE route = "in_place" -> "tempfile"
                          [] route = "unreachable" -> "unreachable"
                          [] OTHER -> "read"
               /\ writer' = IF route \in {"stdout_lock", "buf_stdout"} THEN route
                            ELSE "none"
               /\ UNCHANGED result
    /\ UNCHANGED <<cli, is_tty, run_impl, fs, fs0, stdin_data, pipe_open, inputs, re,
                   line_match_pattern, idx, line_buffer, wbuf, temp,
                   current_file_permissions, lw, out, rejected, err, exit_code>>

\* unreachable!(): the thread panics and the process ends with status 101.
Unreachable ==
    /\ pc = "unreachable"
    /\ err' = Append(err, <<"thread 'main' panicked: internal error: entered unreachable code">>)
    /\ exit_code' = 101
    /\ pc' = "exited"
    /\ reader' = <<>>
    /\ UNCHANGED <<cli, is_tty, run_impl, fs, fs0, snap, stdin_data, pipe_open, inputs, re,
                   line_match_pattern, idx, line_buffer, writer, wbuf, temp,
                   current_file_permissions, lw, out, rejected, result, ops>>

\* tempfile::Builder::new().prefix("sub_").tempfile(), then BufWriter::new
CreateTemp ==
    /\ pc = "tempfile"
    /\ Log("tempfile")
    /\ \E created \in BOOLEAN :
         IF created
         THEN /\ temp' = [exists |-> TRUE, content |-> <<>>, perm |-> TempMode]
              /\ writer' = "buf_temp"
              /\ pc' = "read"
              /\ UNCHANGED <<result, reader>>
         ELSE /\ result' = Err("CanNotCreateTempFile", "")
              /\ pc' = "returned"
              /\ reader' = <<>>
              /\ UNCHANGED <<temp, writer>>
    /\ UNCHANGED <<cli, is_tty, run_impl, fs, fs0, snap, stdin_data, pipe_open, inputs, re,
                   line_match_pattern, idx, line_buffer, wbuf,
                   current_file_permissions, lw, out, rejected, err, exit_code>>


\* An in-place block that copies right after the replacement, without
\* transferring the permissions.
AfterReplaceStraightToCopy(w) == IF w = "buf_temp" THEN "copy" ELSE "drop"

\* Where Sub::run continues when replace returned Ok: the permissions of the
\* original in the in-place block, the end of the block otherwise.
AfterReplace(w) == IF w = "buf_temp" THEN "metadata" ELSE "drop"

\* Sub::replace: reader.read_line(&mut line_buffer)
ReadLine ==
    /\ pc = "read"
    /\ Log("read")
    /\ LET line == ReadLineOf(reader) IN
       /\ reader' = SubSeq(reader, Len(line) + 1, Len(reader))
       /\ IF ~IsValidUTF8(line)
          THEN /\ result' = Err("InvalidUTF8", "")
               /\ pc' = "drop"
               /\ UNCHANGED line_buffer
          ELSE IF line = <<>>
          THEN /\ pc' = AfterReplace(writer)
               /\ line_buffer' = <<>>
               /\ UNCHANGED result
          ELSE /\ line_buffer' = line
               /\ pc' = "write"
               /\ UNCHANGED result
    /\ UNCHANGED <<cli, is_tty, run_impl, fs, fs0, snap, stdin_data, pipe_open, inputs, re,
                   line_match_pattern, idx, writer, wbuf, temp,
                   current_file_permissions, lw, out, rejected, err, exit_code>>

\* Sub::replace: the new line and write!(writer, "{}", new_line)
WriteLine ==
    /\ pc = "write"
    /\ \E disk_ok \in BOOLEAN :
         LET new_line == NewLine(re, line_match_pattern, cli.replacement, line_buffer)
             r == WriterWrite(writer, World, wbuf, new_line, disk_ok)
         IN /\ LogWrite(line_buffer, new_line)
            /\ wbuf' = r.buf
            /\ temp' = [temp EXCEPT !.content = r.W.temp]
            /\ lw' = r.W.lw
            /\ out' = r.W.out
            /\ rejected' = r.W.rejected
            /\ IF r.ok
               THEN /\ pc' = "read"
                    /\ UNCHANGED result
               ELSE /\ result' = Err("FailedToWrite", "")
                    /\ pc' = "drop"
    /\ UNCHANGED <<cli, is_tty, run_impl, fs, fs0, snap, stdin_data, pipe_open, inputs, re,
                   line_match_pattern, idx, reader, line_buffer, writer,
                   current_file_permissions, err, exit_code>>

\* fs::metadata(path)?.permissions()
ReadPermissions ==
    /\ pc = "metadata"
    /\ Log("metadata")
    /\ \E readable \in BOOLEAN :
         IF readable /\ fs[inputs[idx].path].exists
         THEN /\ current_file_permissions' = fs[inputs[idx].path].perm
              /\ pc' = "set_permissions"
              /\ UNCHANGED result
         ELSE /\ result' = Err("CanNotReadPermissions", inputs[idx].path)
              /\ pc' = "drop"
              /\ UNCHANGED current_file_permissions
    /\ UNCHANGED <<cli, is_tty, run_impl, fs, fs0, snap, stdin_data, pipe_open, inputs, re,
                   line_match_pattern, idx, reader, line_buffer, writer, wbuf, temp,
                   lw, out, rejected, err, exit_code>>

\* The temp file keeps the mode it was created with.
PermissionsNotTransferred(perm) == TempMode

\* The mode a successful fs::set_permissions leaves on the temp file.
PermissionsToSet(perm) == perm

\* A set_permissions with its arguments the other way round: the original
\* file is given the mode of the temporary file.
SetPermissionsOfOriginal ==
    /\ pc = "set_permissions"
    /\ Log("set_permissions")
    /\ \E settable \in BOOLEAN :
         IF settable
         THEN /\ fs' = [fs EXCEPT ![inputs[idx].path].perm = temp.perm]
              /\ pc' = "copy"
              /\ UNCHANGED result
         ELSE /\ result' = Err("CanNotSetPermissions", "sub_tmp")
              /\ pc' = "drop"
              /\ UNCHANGED fs
    /\ UNCHANGED <<cli, is_tty, run_impl, fs0, snap, stdin_data, pipe_open, inputs, re,
                   line_match_pattern, idx, reader, line_buffer, writer, wbuf, temp,
                   current_file_permissions, lw, out, rejected, err, exit_code>>

\* fs::set_permissions(temp_file.path(), current_file_permissions)
SetPermissions ==
    /\ pc = "set_permissions"
    /\ Log("set_permissions")
    /\ \E settable \in BOOLEAN :
         IF settable
         THEN /\ temp' = [temp EXCEPT !.perm = PermissionsToSet(current_file_permissions)]
              /\ pc' = "copy"
              /\ UNCHANGED result
         ELSE /\ result' = Err("CanNotSetPermissions", "sub_tmp")
              /\ pc' = "drop"
              /\ UNCHANGED temp
    /\ UNCHANGED <<cli, is_tty, run_impl, fs, fs0, snap, stdin_data, pipe_open, inputs, re,
                   line_match_pattern, idx, reader, line_buffer, writer, wbuf,
                   current_file_permissions, lw, out, rejected, err, exit_code>>

\* fs::copy(temp_file.path(), &path): the destination is opened truncated
\* with the source's mode, then the source's bytes are copied.  A failure
\* leaves the destination untouched (it could not be opened) or holding a
\* proper prefix of the source.
Copy ==
    /\ pc = "copy"
    /\ Log("copy")
    /\ LET path == inputs[idx].path IN
       \/ /\ fs' = [fs EXCEPT ![path] =
                       [exists |-> TRUE, content |-> temp.content, perm |-> temp.perm]]
          /\ pc' = "drop"
          /\ UNCHANGED result
       \/ /\ result' = Err("CanNotReplaceInPlace", path)
          /\ pc' = "drop"
          /\ UNCHANGED fs
       \/ \E n \in 0..(Len(temp.content) - 1) :
            /\ fs' = [fs EXCEPT ![path] =
                         [exists |-> TRUE, content |-> SubSeq(temp.content, 1, n),
                          perm |-> temp.perm]]
            /\ result' = Err("CanNotReplaceInPlace", path)
            /\ pc' = "drop"
    /\ UNCHANGED <<cli, is_tty, run_impl, fs0, snap, stdin_data, pipe_open, inputs, re,
                   line_match_pattern, idx, reader, line_buffer, writer, wbuf, temp,
                   current_file_permissions, lw, out, rejected, err, exit_code>>

\* A temporary file that is persisted instead of removed when dropped.
TempPersisted(t) == t

\* Drop of the NamedTempFile: the file is removed.
DropTemp(t) == Missing

\* The end of the input's block, or an early return from it: the writer,
\* the temporary file and the reader are dropped, in that order.
ScopeEnd ==
    /\ pc = "drop"
    /\ \E disk_ok \in BOOLEAN :
         LET W == IF writer \in {"buf_stdout", "buf_temp"}
                  THEN BufDrop(writer, World, wbuf, disk_ok)
                  ELSE World
         IN /\ lw' = W.lw
            /\ out' = W.out
            /\ rejected' = W.rejected
    /\ wbuf' = <<>>
    /\ writer' = "none"
    /\ temp' = DropTemp(temp)
    /\ reader' = <<>>
    /\ pc' = IF result = NoResult THEN "loop" ELSE "returned"
    /\ UNCHANGED <<cli, is_tty, run_impl, fs, fs0, snap, stdin_data, pipe_open, inputs, re,
                   line_match_pattern, idx, line_buffer,
                   current_file_permissions, err, result, exit_code, ops>>

\* main: match result { Ok(_) => {} Err(e) => { eprintln!; process::exit(1) } }
\* Leaving the process flushes standard output, ignoring the outcome.
MainExit ==
    /\ pc = "returned"
    /\ LET W == LwFlush(World).W IN
       /\ lw' = W.lw
       /\ out' = W.out
       /\ rejected' = W.rejected
    /\ IF result.ok
       THEN /\ exit_code' = 0
            /\ UNCHANGED err
       ELSE /\ err' = Append(err, <<"[sub error]: ">> \o Display(result))
            /\ exit_code' = 1
    /\ pc' = "exited"
    /\ UNCHANGED <<cli, is_tty, run_impl, fs, fs0, snap, stdin_data, pipe_open, inputs, re,
                   line_match_pattern, idx, reader, line_buffer, writer, wbuf, temp,
                   current_file_permissions, result, ops>>

\* The process reading standard output goes away.
ClosePipe ==
    /\ pipe_open
    /\ pc \notin {"parse", "exited"}
    /\ pipe_open' = FALSE
    /\ UNCHANGED <<cli, is_tty, run_impl, fs, fs0, snap, stdin_data, pc, inputs, re,
                   line_match_pattern, idx, reader, line_buffer, writer, wbuf, temp,
                   current_file_permissions, lw, out, rejected, err, result,
                   exit_code, ops>>

Next ==
    \/ Parse
    \/ CompilePatterns
    \/ LoopHead
    \/ Open
    \/ Unreachable
    \/ CreateTemp
    \/ ReadLine
    \/ WriteLine
    \/ ReadPermissions
    \/ SetPermissions
    \/ Copy
    \/ ScopeEnd
    \/ MainExit
    \/ ClosePipe

Spec == Init /\ [][Next]_vars

\* ------------------------------------------------------------------------
\* The same program on standard input only, over a richer set of patterns,
\* replacements and lines: the jobs that exercise Sub::replace.
\* ------------------------------------------------------------------------

CR == "\r"

ReBytes == {"a", "b", "A", CR, NL}

ReContents == SeqsUpTo(ReBytes, MaxLen)

\* A literal, a literal in another case, an alternation, a repetition of a
\* class, a pattern that matches the line feed, and the empty pattern.
RePatterns ==
    { <<"a">>, <<"A", "b">>, <<"a", "|", "b">>, <<"\\", "w", "+">>,
      <<"\\", "n">>, <<>> }

\* Line filter and replacement: a plain replacement, one that refers to the
\* match, one in upper case behind a filter, and the empty replacement.
ReVariants ==
    { [line_match |-> None, replacement |-> <<"b">>],
      [line_match |-> None, replacement |-> <<"B", "$", "0">>],
      [line_match |-> Some(<<"a">>), replacement |-> <<"B">>],
      [line_match |-> None, replacement |-> <<>>] }

ReClis ==
    { [pattern |-> p, replacement |-> v.replacement, files |-> <<>>,
       ignore_case |-> i, in_place |-> FALSE, whole_word |-> w,
       line_match |-> v.line_match]
      : p \in RePatterns, v \in ReVariants, i \in BOOLEAN, w \in BOOLEAN }

InitRe ==
    /\ cli \in ReClis
    /\ is_tty \in BOOLEAN
    /\ run_impl = "sub"
    /\ fs = [p \in Paths |-> Missing]
    /\ fs0 = fs
    /\ snap = <<>>
    /\ stdin_data \in ReContents
    /\ pipe_open = TRUE
    /\ pc = "parse"
    /\ inputs = <<>>
    /\ re = [ok |-> FALSE]
    /\ line_match_pattern = [some |-> FALSE]
    /\ idx = 0
    /\ reader = <<>>
    /\ line_buffer = <<>>
    /\ writer = "none"
    /\ wbuf = <<>>
    /\ temp = Missing
    /\ current_file_permissions = NoMode
    /\ lw = <<>>
    /\ out = <<>>
    /\ rejected = FALSE
    /\ err = <<>>
    /\ result = NoResult
    /\ exit_code = -1
    /\ ops = <<>>

\* The steps a job on standard input takes.
NextRe ==
    \/ Parse
    \/ CompilePatterns
    \/ LoopHead
    \/ Open
    \/ ReadLine
    \/ WriteLine
    \/ ScopeEnd
    \/ MainExit

SpecRe == InitRe /\ [][NextRe]_vars


\* ------------------------------------------------------------------------
\* Properties
\* ------------------------------------------------------------------------

\* What the Stream Replacer writes to an ideal sink for `content` under the
\* job's pattern, filter and replacement (up to the first invalid line).
ExpectedText(content) ==
    LET c == CompileStage(cli)
    IN ReplaceStream(c.re, c.filter, cli.replacement, content).text

RegexInvalid ==
    \/ ~Compile(EffectivePattern(cli.pattern, cli.whole_word), cli.ignore_case).ok
    \/ cli.line_match.some /\ ~Compile(cli.line_match.v, cli.ignore_case).ok

Returned == pc \in {"returned", "exited"} /\ result # NoResult

Attempted(op, i) == \E k \in 1..Len(ops) : ops[k][1] = op /\ ops[k][2] = i

\* The final copy of input i was made: it was attempted and did not fail
\* (a failure is the run's result and ends the run at that input).
CopyDone(i) ==
    /\ Attempted("copy", i)
    /\ (i < idx \/ (pc # "copy" /\ (result = NoResult \/ result.ok)))

\* Input i is the last one so far that names its path.
LastOfPath(i) == \A j \in (i + 1)..Len(snap) : inputs[j].path # inputs[i].path

\* C1: after a run that returned Ok with in_place set, every file the
\* in-place editor copied over holds exactly what the Stream Replacer
\* writes for the content the file had when it was opened.
C1_InPlaceEqualsStream ==
    (pc = "exited" /\ result.ok /\ cli.in_place) =>
        \A i \in 1..Len(inputs) :
            (CopyDone(i) /\ LastOfPath(i)) =>
                fs[inputs[i].path].content = ExpectedText(snap[i].content)

\* C2: once an input is open, it is routed by in_place and its kind alone:
\* a file under in_place goes to the in-place editor, everything else to
\* the Stream Replacer with standard output as its sink.
C2_RoutedByInPlaceAndKind ==
    (run_impl = "sub" /\ pc \in {"tempfile", "read", "write", "unreachable"}) =>
        IF cli.in_place /\ inputs[idx].kind = "File"
        THEN pc = "tempfile" \/ writer = "buf_temp"
        ELSE pc # "unreachable" /\ writer \in {"stdout_lock", "buf_stdout"}

\* Every input exists and is valid UTF-8, and both patterns compile.
CleanJob ==
    /\ ~RegexInvalid
    /\ \A i \in 1..Len(cli.files) : fs0[cli.files[i]].exists
    /\ \A i \in 1..Len(cli.files) : IsValidUTF8(fs0[cli.files[i]].content)
    /\ IsValidUTF8(stdin_data)

\* The output of a job that streams every input to standard output.
RECURSIVE StreamedUpTo(_)
StreamedUpTo(n) ==
    IF n = 0 THEN <<>>
    ELSE StreamedUpTo(n - 1) \o
         ExpectedText(IF cli.files = <<>> THEN stdin_data
                      ELSE fs0[cli.files[n]].content)

EnvErrors == {"FailedToWrite", "CanNotCreateTempFile", "CanNotReadPermissions",
              "CanNotSetPermissions", "CanNotReplaceInPlace"}

\* C3: is_tty does not change the outcome.  In an environment without I/O
\* failures a clean job has one outcome whatever is_tty is: Ok, every
\* input's output on standard output, the files as they were (the outcome
\* of the run with is_tty set).
C3_SameOutcomeForBothTty ==
    (pc = "exited" /\ inputs # <<>> /\ CleanJob /\ pipe_open
        /\ ~(Returned /\ ~result.ok /\ result.kind \in EnvErrors)) =>
        /\ result.ok
        /\ out = StreamedUpTo(Len(inputs))
        /\ fs = fs0

\* C4: after a successful in-place edit of a file, its permission bits are
\* the ones it had when the edit started.
C4_PermissionsPreserved ==
    \A i \in 1..Len(snap) :
        (CopyDone(i) /\ LastOfPath(i)) =>
            fs[inputs[i].path].perm = snap[i].perm

C4_Witness ==
    /\ pc = "exited" /\ result.ok
    /\ CopyDone(1)
    /\ inputs[1].path = "f1"
    /\ fs["f1"].perm = Mode644

\* C5: when input k fails, run returns that error, the earlier inputs are
\* fully processed (under in_place their files hold the substituted
\* content) and nothing was done on the later inputs.
C5_FailFastEarlierDone ==
    (run_impl = "sub" /\ Returned /\ ~result.ok /\ idx >= 1) =>
        /\ \A k \in 1..Len(ops) : ops[k][2] <= idx
        /\ \A i \in 1..(idx - 1) :
              (cli.in_place /\ CopyDone(i)
                 /\ \A j \in (i + 1)..idx : inputs[j].path # inputs[i].path) =>
                  fs[inputs[i].path].content = ExpectedText(snap[i].content)

\* C6: a write the sink rejected while an input was processed makes run
\* return an error, not Ok.
C6_RejectedWriteFails ==
    (pc = "returned" /\ rejected) => ~result.ok

\* C7: a job ends with status 0 and no diagnostic when run returned Ok, or
\* with status 1 and one diagnostic line when it returned an error.
C7_ExitZeroOrOne ==
    (pc = "exited" /\ inputs # <<>>) =>
        \/ exit_code = 0 /\ result.ok /\ err = <<>>
        \/ /\ exit_code = 1 /\ Returned /\ ~result.ok
           /\ err = << <<"[sub error]: ">> \o Display(result) >>

\* C8: with a pattern (after whole-word wrapping) or a line filter that is
\* not a valid regular expression, no input is opened or read, no temporary
\* file exists, nothing is written, and run returns RegexError.
C8_RegexErrorBeforeIO ==
    RegexInvalid =>
        /\ ops = <<>> /\ snap = <<>> /\ reader = <<>>
        /\ ~temp.exists /\ fs = fs0
        /\ out = <<>> /\ lw = <<>> /\ wbuf = <<>>
        /\ (Returned => result = Err("RegexError", ""))
        /\ (pc = "exited" /\ inputs # <<>> => Returned)

C8_Witness ==
    /\ pc = "exited" /\ result = Err("RegexError", "")
    /\ cli.files # <<>> /\ fs0["f1"].exists
    /\ cli.line_match.some /\ ~Compile(cli.line_match.v, cli.ignore_case).ok
    /\ Compile(EffectivePattern(cli.pattern, cli.whole_word), cli.ignore_case).ok

\* C9: a job with in_place set and no file argument is rejected before any
\* processing: nothing is read from standard input, nothing is written to
\* standard output, and the process ends with a usage error.
C9_InPlaceNeedsFiles ==
    (cli.in_place /\ cli.files = <<>>) =>
        /\ pc \in {"parse", "exited"}
        /\ ops = <<>> /\ snap = <<>> /\ reader = <<>>
        /\ out = <<>> /\ lw = <<>>
        /\ result = NoResult
        /\ (pc = "exited" => exit_code = 2 /\ err # <<>>)

C9_Witness ==
    /\ cli.in_place /\ cli.files = <<>> /\ stdin_data # <<>>
    /\ ~RegexInvalid
    /\ pc = "exited"

\* Standard output was the sink of every input so far.
StdoutMode == \A i \in 1..Len(inputs) : ~Attempted("tempfile", i)

\* C10: the operations follow the order of the inputs on the command line:
\* each operation is on the input at its index, and no operation on an
\* input precedes one on an earlier input; when every input is streamed to
\* standard output and the run ends without an I/O failure, standard output
\* holds the inputs' outputs concatenated in command-line order.
C10_InputsInOrder ==
    /\ \A k \in 1..Len(ops) :
          /\ ops[k][2] \in 1..Len(inputs)
          /\ ops[k][3] = (IF cli.files = <<>> THEN "" ELSE cli.files[ops[k][2]])
          /\ \A m \in 1..(k - 1) : ops[m][2] <= ops[k][2]
    /\ (pc = "exited" /\ Returned /\ pipe_open /\ StdoutMode
          /\ (result.ok \/ result.kind \notin EnvErrors)
          /\ ~RegexInvalid) =>
            out = StreamedUpTo(idx)

C10_Witness ==
    /\ pc = "exited" /\ result.ok /\ pipe_open /\ StdoutMode
    /\ cli.files = <<"f1", "f2">>
    /\ fs0["f1"].content = <<"a", NL, "a">>
    /\ out = <<"b", NL, "b", "b", NL>>

\* ------------------------------------------------------------------------
\* Properties of the lines written (write entries of ops: [4] is the line
\* read, [5] the line handed to the writer)
\* ------------------------------------------------------------------------

IsWrite(k) == ops[k][1] = "write"

EndsWith(s, t) ==
    Len(s) >= Len(t) /\ SubSeq(s, Len(s) - Len(t) + 1, Len(s)) = t

\* The terminator a line ends with: CR LF, LF, or none.
Terminator(line) ==
    IF EndsWith(line, <<CR, NL>>) THEN <<CR, NL>>
    ELSE IF EndsWith(line, <<NL>>) THEN <<NL>>
    ELSE <<>>

Count(c, s) == Cardinality({i \in 1..Len(s) : s[i] = c})

\* C11: every line written ends with the terminator of the line read, no
\* line feed is added or removed, and a line read without a terminator is
\* written without one.
C11_TerminatorPassedThrough ==
    \A k \in 1..Len(ops) :
        IsWrite(k) =>
            /\ EndsWith(ops[k][5], Terminator(ops[k][4]))
            /\ Count(NL, ops[k][5]) = Count(NL, ops[k][4])

\* What the writer was handed by the first k operations, in order.
RECURSIVE WrittenUpTo(_)
WrittenUpTo(k) ==
    IF k = 0 THEN <<>>
    ELSE WrittenUpTo(k - 1) \o (IF IsWrite(k) THEN ops[k][5] ELSE <<>>)

\* What the first k operations read, in order.
RECURSIVE ReadUpTo(_)
ReadUpTo(k) ==
    IF k = 0 THEN <<>>
    ELSE ReadUpTo(k - 1) \o (IF IsWrite(k) THEN ops[k][4] ELSE <<>>)

LastWrite == CHOOSE k \in 1..Len(ops) : IsWrite(k) /\ \A j \in (k + 1)..Len(ops) : ~IsWrite(j)

\* A job on standard input that ran to its end with exit status 0.
StdinJobDone ==
    pc = "exited" /\ exit_code = 0 /\ cli.files = <<>> /\ pipe_open /\ ~rejected

\* C12: when the input does not end with a line feed, the last line read is
\* the partial line after the last line feed, the line written for it
\* holds no line feed, the loop stops at the next (zero-length) read, and
\* standard output receives exactly the lines written, nothing appended.
C12_NoTerminatorAdded ==
    (StdinJobDone /\ stdin_data # <<>> /\ ~EndsWith(stdin_data, <<NL>>)) =>
        /\ ops[LastWrite][4] =
               SubSeq(stdin_data, LastNL(stdin_data, Len(stdin_data)) + 1, Len(stdin_data))
        /\ Count(NL, ops[LastWrite][5]) = 0
        /\ LastWrite = Len(ops) - 1
        /\ ops[Len(ops)][1] = "read"
        /\ ReadUpTo(Len(ops)) = stdin_data
        /\ out = WrittenUpTo(Len(ops))

\* The case of the test no_trailing_newline.
C12_Witness ==
    /\ StdinJobDone
    /\ stdin_data = <<"a", NL, "a">>
    /\ cli.pattern = <<"a">> /\ cli.replacement = <<"b">>
    /\ ~cli.whole_word /\ ~cli.ignore_case
    /\ out = <<"b", NL, "b">>

\* Case folding as the option asks for it.
Fold(c, icase) == IF icase THEN Lower(c) ELSE c

\* The text lit occurs in line at offset s (0-based), up to case if icase.
OccursAt(lit, line, s, icase) ==
    /\ s + Len(lit) <= Len(line)
    /\ \A i \in 1..Len(lit) : Fold(line[s + i], icase) = Fold(lit[i], icase)

Contains(lit, line, icase) == \E s \in 0..Len(line) : OccursAt(lit, line, s, icase)

\* The line is one the filter (a literal text in the jobs explored) lets through.
Eligible(line) ==
    cli.line_match.some => Contains(cli.line_match.v, line, cli.ignore_case)

\* C13: a line the filter does not match is written byte for byte as read;
\* every other line is written as the pattern substitution of the line.
C13_FilterIsGate ==
    \A k \in 1..Len(ops) :
        IsWrite(k) =>
            IF Eligible(ops[k][4])
            THEN ops[k][5] = ReplaceAll(re, ops[k][4], cli.replacement)
            ELSE ops[k][5] = ops[k][4]

\* A filtered-out line that the pattern matches, and a line let through.
C13_Witness ==
    /\ StdinJobDone
    /\ cli.line_match = Some(<<"a">>)
    /\ cli.pattern = <<"a", "|", "b">> /\ ~cli.whole_word /\ ~cli.ignore_case
    /\ stdin_data = <<"b", NL, "a">>
    /\ out = <<"b", NL, "B">>

\* What it means for the compiled pattern to occur in line from offset s to
\* offset e, as a relation: some alternative's atoms, in order, account for
\* exactly the bytes s+1..e.  No preference among occurrences is expressed.
AtomOccurs(atom, icase, c) ==
    IF atom.t = "word" THEN c \in WordChars
    ELSE Fold(atom.c, icase) = Fold(c, icase)

RECURSIVE SeqOccurs(_, _, _, _, _, _)
SeqOccurs(atoms, k, icase, line, s, e) ==
    IF k > Len(atoms) THEN s = e
    ELSE IF atoms[k].t = "wb"
    THEN IsBoundary(line, s) /\ SeqOccurs(atoms, k + 1, icase, line, s, e)
    ELSE IF atoms[k].rep
    THEN \E n \in 1..(e - s) :
            /\ \A i \in 1..n : AtomOccurs(atoms[k], icase, line[s + i])
            /\ SeqOccurs(atoms, k + 1, icase, line, s + n, e)
    ELSE /\ s < e
         /\ AtomOccurs(atoms[k], icase, line[s + 1])
         /\ SeqOccurs(atoms, k + 1, icase, line, s + 1, e)

Occurs(line, s, e) ==
    \E i \in 1..Len(re.alts) : SeqOccurs(re.alts[i], 1, re.icase, line, s, e)

\* The text put in place of the match m: the replacement itself when it
\* holds no "$", its expansion otherwise.
Inserted(m) ==
    IF \A i \in 1..Len(cli.replacement) : cli.replacement[i] # "$"
    THEN cli.replacement
    ELSE Expand(cli.replacement, m)

\* An occurrence from q to e counts unless it is empty and touches the end
\* of the previous occurrence.
Counts(line, q, e, last) == Occurs(line, q, e) /\ ~(e = q /\ q = last)

\* new is what remains to be written of line when the bytes up to copied are
\* written, the search stands at search and the previous occurrence ended at
\* last: the bytes up to the leftmost occurrence that counts, the text
\* inserted for it, and the same for what follows; the rest of the line
\* when nothing more occurs.
RECURSIVE Explains(_, _, _, _, _)
Explains(line, new, search, copied, last) ==
    LET starts == {q \in search..Len(line) :
                      \E e \in q..Len(line) : Counts(line, q, e, last)}
    IN IF starts = {} THEN new = SubSeq(line, copied + 1, Len(line))
       ELSE LET q == CHOOSE x \in starts : \A y \in starts : x <= y
            IN \E e \in q..Len(line) :
                  /\ Counts(line, q, e, last)
                  /\ LET piece == SubSeq(line, copied + 1, q)
                                  \o Inserted(SubSeq(line, q + 1, e))
                     IN /\ Len(new) >= Len(piece)
                        /\ SubSeq(new, 1, Len(piece)) = piece
                        /\ Explains(line, SubSeq(new, Len(piece) + 1, Len(new)),
                                    IF e = q THEN e + 1 ELSE e, e, e)

\* C14: a line that is substituted holds no line feed except as its last
\* byte, and is written with every occurrence of the pattern, taken
\* leftmost first and without overlap, replaced by the replacement (its
\* references to the match expanded) and every other byte as it was.
C14_AllOccurrencesReplaced ==
    \A k \in 1..Len(ops) :
        (IsWrite(k) /\ Eligible(ops[k][4])) =>
            /\ \A i \in 1..(Len(ops[k][4]) - 1) : ops[k][4][i] # NL
            /\ Explains(ops[k][4], ops[k][5], 0, 0, -1)

\* Two occurrences in one line with a byte between them.
C14_Witness ==
    /\ StdinJobDone
    /\ cli.pattern = <<"a">> /\ cli.replacement = <<"b">>
    /\ ~cli.whole_word /\ ~cli.ignore_case
    /\ stdin_data = <<"a", "A", "a">>
    /\ out = <<"b", "A", "b">>

\* The matches replace_all replaces in line, in order: [s, e] offsets.
RECURSIVE ReplacedSpans(_, _, _)
ReplacedSpans(line, last_end, last_match) ==
    LET m == FindAt(re, line, last_end) IN
    IF ~m.found THEN <<>>
    ELSE IF m.s = m.e THEN
        IF m.e = last_match THEN ReplacedSpans(line, m.e + 1, last_match)
        ELSE <<m>> \o ReplacedSpans(line, m.e + 1, m.e)
    ELSE <<m>> \o ReplacedSpans(line, m.e, m.e)

\* C15: with whole_word, every match replaced in a line starts and ends
\* at a word boundary of the line.
C15_WholeWordBounded ==
    cli.whole_word =>
        \A k \in 1..Len(ops) :
            (IsWrite(k) /\ Eligible(ops[k][4])) =>
                LET spans == ReplacedSpans(ops[k][4], 0, -1)
                IN \A i \in 1..Len(spans) :
                      /\ IsBoundary(ops[k][4], spans[i].s)
                      /\ IsBoundary(ops[k][4], spans[i].e)

\* The patterns of the jobs explored that are plain text.
IsLiteral(p) == p # <<>> /\ \A i \in 1..Len(p) : p[i] \in WordChars

\* line from offset s on with the text lit replaced wherever it occurs up to
\* letter case (as a whole word if ww), scanning from the left; the bytes
\* in between are copied as they are.
RECURSIVE ReplaceTextIgnoringCase(_, _, _, _)
ReplaceTextIgnoringCase(lit, line, s, ww) ==
    IF s >= Len(line) THEN <<>>
    ELSE IF /\ OccursAt(lit, line, s, TRUE)
            /\ ww => (IsBoundary(line, s) /\ IsBoundary(line, s + Len(lit)))
    THEN Inserted(SubSeq(line, s + 1, s + Len(lit)))
         \o ReplaceTextIgnoringCase(lit, line, s + Len(lit), ww)
    ELSE <<line[s + 1]>> \o ReplaceTextIgnoringCase(lit, line, s + 1, ww)

\* C16: with ignore_case and a plain-text pattern, the line written is the
\* line read with each occurrence of the text in any letter case replaced
\* by the replacement as given, and every other byte, upper or lower case,
\* as it was read.
C16_IgnoreCaseMatchingOnly ==
    (cli.ignore_case /\ IsLiteral(cli.pattern)) =>
        \A k \in 1..Len(ops) :
            (IsWrite(k) /\ Eligible(ops[k][4])) =>
                ops[k][5] = ReplaceTextIgnoringCase(cli.pattern, ops[k][4], 0, cli.whole_word)

\* The pattern Ab replaces ab; the upper-case A before it and the upper-case
\* replacement B are written as they are.
C16_Witness ==
    /\ StdinJobDone
    /\ cli.ignore_case /\ ~cli.whole_word
    /\ cli.pattern = <<"A", "b">> /\ cli.replacement = <<"B">>
    /\ stdin_data = <<"A", "a", "b">>
    /\ out = <<"A", "B">>

\* ------------------------------------------------------------------------
\* Properties of the in-place edit
\* ------------------------------------------------------------------------

\* The positions of Sub::run inside the in-place block of the current input,
\* from the creation of the temporary file to the end of the block.
InBlock == {"read", "write", "metadata", "set_permissions", "copy", "drop"}

\* C17: a temporary file exists only inside the in-place block of the
\* current input, which created it; none exists when a temporary file is
\* about to be created, between inputs, or once run has returned.
C17_TempTransient ==
    /\ temp.exists =>
          /\ pc \in InBlock
          /\ writer = "buf_temp"
          /\ Attempted("tempfile", idx)
    /\ pc \notin InBlock => ~temp.exists

\* An in-place edit that failed after its temporary file was written, run
\* has returned and the file is gone.
C17_Witness ==
    /\ pc = "returned"
    /\ result = Err("CanNotSetPermissions", "sub_tmp")
    /\ Attempted("tempfile", idx) /\ Attempted("write", idx)
    /\ ~temp.exists

\* The job edits its files in place (sub.rs, off a terminal).
InPlaceJob == run_impl = "sub" /\ ~is_tty /\ cli.in_place /\ cli.files # <<>>

\* The step of the in-place edit an operation belongs to.
StepOf(op) ==
    CASE op = "open" -> 1
      [] op = "tempfile" -> 2
      [] op \in {"read", "write"} -> 3
      [] op = "metadata" -> 4
      [] op = "set_permissions" -> 5
      [] op = "copy" -> 6

\* The error a failure of the operation o = <<operation, index, path, ...>>
\* is reported with.
ErrorOf(o) ==
    CASE o[1] = "open" -> Err("FileNotFoundError", o[3])
      [] o[1] = "tempfile" -> Err("CanNotCreateTempFile", "")
      [] o[1] = "read" -> Err("InvalidUTF8", "")
      [] o[1] = "write" -> Err("FailedToWrite", "")
      [] o[1] = "metadata" -> Err("CanNotReadPermissions", o[3])
      [] o[1] = "set_permissions" -> Err("CanNotSetPermissions", "sub_tmp")
      [] o[1] = "copy" -> Err("CanNotReplaceInPlace", o[3])

\* C18: in an in-place job the operations on one input run through the
\* steps 1..6 in order, no step before its predecessor was taken and none
\* of open, tempfile, metadata, set_permissions, copy twice; when run
\* returns an error raised in the loop, it is the error of the last
\* operation performed, which belongs to the current input.
C18_StepsInOrder ==
    InPlaceJob =>
        /\ \A k \in 1..Len(ops) :
              /\ \A j \in 1..(k - 1) :
                    ops[j][2] = ops[k][2] =>
                        /\ StepOf(ops[j][1]) <= StepOf(ops[k][1])
                        /\ StepOf(ops[k][1]) # 3 => StepOf(ops[j][1]) < StepOf(ops[k][1])
              /\ StepOf(ops[k][1]) > 1 =>
                    \E j \in 1..(k - 1) :
                        /\ ops[j][2] = ops[k][2]
                        /\ StepOf(ops[j][1]) = StepOf(ops[k][1]) - 1
        /\ (Returned /\ result # Ok /\ ops # <<>>) =>
              /\ ops[Len(ops)][2] = idx
              /\ result = ErrorOf(ops[Len(ops)])

\* An edit that failed at step 4: run returned CanNotReadPermissions, and
\* neither set_permissions nor copy was attempted.
C18_Witness ==
    /\ InPlaceJob
    /\ Returned
    /\ idx \in 1..Len(inputs)
    /\ result = Err("CanNotReadPermissions", inputs[idx].path)
    /\ Attempted("open", idx) /\ Attempted("tempfile", idx) /\ Attempted("write", idx)
    /\ ~Attempted("set_permissions", idx) /\ ~Attempted("copy", idx)

\* C19: in an in-place job, as long as the copy of the current input has
\* not started, the file at its path is as it was when the input was
\* opened, content and mode, whatever step failed or is under way.
C19_OriginalUntouchedBeforeCopy ==
    (InPlaceJob /\ idx \in 1..Len(snap) /\ ~Attempted("copy", idx)) =>
        fs[inputs[idx].path] = snap[idx]

\* An edit that wrote a line to the temporary file and then failed on an
\* invalid line: the original file is still there as it was opened.
C19_Witness ==
    /\ InPlaceJob
    /\ Returned
    /\ result = Err("InvalidUTF8", "")
    /\ Attempted("write", idx)
    /\ fs[inputs[idx].path].exists
    /\ fs[inputs[idx].path] = snap[idx]

\* ------------------------------------------------------------------------
\* Termination
\* ------------------------------------------------------------------------

Opens(i) == {k \in 1..Len(ops) : ops[k][1] = "open" /\ ops[k][2] = i}

\* C20: a process that called run ends only after run returned; no input
\* is opened twice; when run returned Ok every input was opened once, and
\* when it returned an error no input after the current one was opened.
C20_RunReturns ==
    /\ \A i \in 1..Len(inputs) : Cardinality(Opens(i)) <= 1
    /\ (pc = "exited" /\ inputs # <<>>) =>
          /\ result # NoResult
          /\ result = Ok => \A i \in 1..Len(inputs) : Cardinality(Opens(i)) = 1
          /\ result # Ok => \A i \in (idx + 1)..Len(inputs) : Opens(i) = {}


====
